---- MODULE Spec2Model ----
(***************************************************************************)
(* srx: symbol-ranking byte-stream compressor (src/src/main.rs).           *)
(*                                                                         *)
(* The encoder is modelled with its real register widths.  TLC integers    *)
(* are 32-bit, so every u32 / u64 / i64 / u128 value is a sequence of      *)
(* bytes, least significant byte first, and the arithmetic of the source   *)
(* (wrapping add, subtract, multiply, shifts, masks) is done on bytes.     *)
(* Arithmetic wraps at the declared width as in a release build.           *)
(***************************************************************************)
EXTENDS Integers, Sequences, FiniteSets, TLC

\* ------------------------------------------------------------------------
\* Bounds of the model
\* ------------------------------------------------------------------------

\* longest input the byte source delivers before end of stream
MaxLen == 4

\* longest byte sequence fed to a context map on its own
MaxFeed == 4

\* largest exponent of the small context maps
MaxSmallLog == 3

\* number of updates of a predictor whose bits are free; the later updates
\* repeat the last bit
MaxFree == 8

\* number of updates applied to a predictor driven on its own
MaxUpdates == 260

\* number of times one byte is fed to a history cell
MaxRepeat == 258

\* number of bit() calls made to a range coder driven on its own
MaxCalls == 66

\* a range coder driven on its own is called again only while it has
\* shifted out at most this many bits
MaxShifts == 1

\* number of first bit() calls that may use context 0 again; the other
\* calls use a context not used before
MaxWarm == 2

\* byte values the byte source delivers
Bytes == {0, 1, 255}

\* ------------------------------------------------------------------------
\* Machine words: sequences of bytes, least significant first
\* ------------------------------------------------------------------------

B8 == 2^8

RECURSIVE ToBytes(_, _)
\* the n-byte word of the natural number v (v < 2^31)
ToBytes(v, n) ==
  IF n = 0 THEN <<>> ELSE <<v % B8>> \o ToBytes(v \div B8, n - 1)

RECURSIVE FromBytes(_)
\* the value of a word (only for words below 2^31)
FromBytes(w) ==
  IF w = <<>> THEN 0 ELSE Head(w) + B8 * FromBytes(Tail(w))

Zero(n) == [i \in 1..n |-> 0]

\* a u32 written as its two 16-bit halves
U32(hi, lo) == ToBytes(lo, 2) \o ToBytes(hi, 2)

\* a u64 written as its four 16-bit quarters, most significant first
U64(a, b, c, d) == ToBytes(d, 2) \o ToBytes(c, 2) \o ToBytes(b, 2) \o ToBytes(a, 2)

\* `as` casts between unsigned widths: zero-extend or truncate to n bytes
Cast(w, n) ==
  IF Len(w) >= n THEN SubSeq(w, 1, n) ELSE w \o Zero(n - Len(w))

RECURSIVE AddC(_, _, _)
\* a + b + c over equal-length words; the last element is the carry out
AddC(a, b, c) ==
  IF a = <<>> THEN <<c>>
  ELSE LET s == Head(a) + Head(b) + c
       IN  <<s % B8>> \o AddC(Tail(a), Tail(b), s \div B8)

\* a + b modulo the width of a
WrappingAdd(a, b) == SubSeq(AddC(a, b, 0), 1, Len(a))

\* TRUE iff a + b does not fit the width of a
AddOverflows(a, b) == AddC(a, b, 0)[Len(a) + 1] = 1

RECURSIVE SubB(_, _, _)
\* a - b - c over equal-length words; the last element is the borrow out
SubB(a, b, c) ==
  IF a = <<>> THEN <<c>>
  ELSE LET d == Head(a) - Head(b) - c
       IN  <<(d + B8) % B8>> \o SubB(Tail(a), Tail(b), IF d < 0 THEN 1 ELSE 0)

\* a - b modulo the width of a
WrappingSub(a, b) == SubSeq(SubB(a, b, 0), 1, Len(a))

\* unsigned comparison of equal-length words
Less(a, b) == SubB(a, b, 0)[Len(a) + 1] = 1

RECURSIVE MulByte(_, _, _)
\* a * k + c for a byte k; one byte longer than a
MulByte(a, k, c) ==
  IF a = <<>> THEN <<c>>
  ELSE LET m == Head(a) * k + c
       IN  <<m % B8>> \o MulByte(Tail(a), k, m \div B8)

RECURSIVE Mul(_, _)
\* the full product a * b, Len(a) + Len(b) bytes
Mul(a, b) ==
  IF b = <<>> THEN Zero(Len(a))
  ELSE LET n    == Len(a) + Len(b)
           rest == <<0>> \o Mul(a, Tail(b))
           part == Cast(MulByte(a, Head(b), 0), n)
       IN  WrappingAdd(part, rest)

\* a * b modulo the width of a
WrappingMul(a, b) == Cast(Mul(a, b), Len(a))

\* logical shifts by whole bytes, width kept
ShlBytes(w, k) == Zero(k) \o SubSeq(w, 1, Len(w) - k)

ShrBytes(w, k) == SubSeq(w, k + 1, Len(w)) \o Zero(k)

\* arithmetic shift right by whole bytes of a two's complement word
SarBytes(w, k) ==
  SubSeq(w, k + 1, Len(w)) \o [i \in 1..k |-> IF w[Len(w)] >= 128 THEN 255 ELSE 0]

RECURSIVE AndInt(_, _)
AndInt(a, b) ==
  IF a = 0 \/ b = 0 THEN 0
  ELSE (a % 2) * (b % 2) + 2 * AndInt(a \div 2, b \div 2)

RECURSIVE XorInt(_, _)
XorInt(a, b) ==
  IF a = 0 THEN b
  ELSE IF b = 0 THEN a
  ELSE ((a + b) % 2) + 2 * XorInt(a \div 2, b \div 2)

RECURSIVE OrInt(_, _)
OrInt(a, b) ==
  IF a = 0 THEN b
  ELSE IF b = 0 THEN a
  ELSE (IF a % 2 = 1 \/ b % 2 = 1 THEN 1 ELSE 0) + 2 * OrInt(a \div 2, b \div 2)

And(a, b) == [i \in 1..Len(a) |-> AndInt(a[i], b[i])]

Xor(a, b) == [i \in 1..Len(a) |-> XorInt(a[i], b[i])]

Or(a, b) == [i \in 1..Len(a) |-> OrInt(a[i], b[i])]

\* ------------------------------------------------------------------------
\* Bit predictor (main.rs 28-95)
\* ------------------------------------------------------------------------

MULTIPLIER ==
  <<
  U32(\h8000, \h0000), U32(\h5555, \h5555), U32(\h4000, \h0000), U32(\h3333, \h3333),
  U32(\h2AAA, \hAAAA), U32(\h2492, \h4924), U32(\h2000, \h0000), U32(\h1C71, \hC71C),
  U32(\h1999, \h9999), U32(\h1745, \hD174), U32(\h1555, \h5555), U32(\h13B1, \h3B13),
  U32(\h1249, \h2492), U32(\h1111, \h1111), U32(\h1000, \h0000), U32(\h0F0F, \h0F0F),
  U32(\h0E38, \hE38E), U32(\h0D79, \h435E), U32(\h0CCC, \hCCCC), U32(\h0C30, \hC30C),
  U32(\h0BA2, \hE8BA), U32(\h0B21, \h642C), U32(\h0AAA, \hAAAA), U32(\h0A3D, \h70A3),
  U32(\h09D8, \h9D89), U32(\h097B, \h425E), U32(\h0924, \h9249), U32(\h08D3, \hDCB0),
  U32(\h0888, \h8888), U32(\h0842, \h1084), U32(\h0800, \h0000), U32(\h07C1, \hF07C),
  U32(\h0787, \h8787), U32(\h0750, \h7507), U32(\h071C, \h71C7), U32(\h06EB, \h3E45),
  U32(\h06BC, \hA1AF), U32(\h0690, \h6906), U32(\h0666, \h6666), U32(\h063E, \h7063),
  U32(\h0618, \h6186), U32(\h05F4, \h17D0), U32(\h05D1, \h745D), U32(\h05B0, \h5B05),
  U32(\h0590, \hB216), U32(\h0572, \h620A), U32(\h0555, \h5555), U32(\h0539, \h7829),
  U32(\h051E, \hB851), U32(\h0505, \h0505), U32(\h04EC, \h4EC4), U32(\h04D4, \h873E),
  U32(\h04BD, \hA12F), U32(\h04A7, \h904A), U32(\h0492, \h4924), U32(\h047D, \hC11F),
  U32(\h0469, \hEE58), U32(\h0456, \hC797), U32(\h0444, \h4444), U32(\h0432, \h5C53),
  U32(\h0421, \h0842), U32(\h0410, \h4104), U32(\h0400, \h0000), U32(\h03F0, \h3F03),
  U32(\h03E0, \hF83E), U32(\h03D2, \h2635), U32(\h03C3, \hC3C3), U32(\h03B5, \hCC0E),
  U32(\h03A8, \h3A83), U32(\h039B, \h0AD1), U32(\h038E, \h38E3), U32(\h0381, \hC0E0),
  U32(\h0375, \h9F22), U32(\h0369, \hD036), U32(\h035E, \h50D7), U32(\h0353, \h1DEC),
  U32(\h0348, \h3483), U32(\h033D, \h91D2), U32(\h0333, \h3333), U32(\h0329, \h161F),
  U32(\h031F, \h3831), U32(\h0315, \h9721), U32(\h030C, \h30C3), U32(\h0303, \h0303),
  U32(\h02FA, \h0BE8), U32(\h02F1, \h4990), U32(\h02E8, \hBA2E), U32(\h02E0, \h5C0B),
  U32(\h02D8, \h2D82), U32(\h02D0, \h2D02), U32(\h02C8, \h590B), U32(\h02C0, \hB02C),
  U32(\h02B9, \h3105), U32(\h02B1, \hDA46), U32(\h02AA, \hAAAA), U32(\h02A3, \hA0FD),
  U32(\h029C, \hBC14), U32(\h0295, \hFAD4), U32(\h028F, \h5C28), U32(\h0288, \hDF0C),
  U32(\h0282, \h8282), U32(\h027C, \h4597), U32(\h0276, \h2762), U32(\h0270, \h2702),
  U32(\h026A, \h439F), U32(\h0264, \h7C69), U32(\h025E, \hD097), U32(\h0259, \h3F69),
  U32(\h0253, \hC825), U32(\h024E, \h6A17), U32(\h0249, \h2492), U32(\h0243, \hF6F0),
  U32(\h023E, \hE08F), U32(\h0239, \hE0D5), U32(\h0234, \hF72C), U32(\h0230, \h2302),
  U32(\h022B, \h63CB), U32(\h0226, \hB902), U32(\h0222, \h2222), U32(\h021D, \h9EAD),
  U32(\h0219, \h2E29), U32(\h0214, \hD021), U32(\h0210, \h8421), U32(\h020C, \h49BA),
  U32(\h0208, \h2082), U32(\h0204, \h0810), U32(\h0200, \h0000), U32(\h01FC, \h07F0),
  U32(\h01F8, \h1F81), U32(\h01F4, \h4659), U32(\h01F0, \h7C1F), U32(\h01EC, \hC07B),
  U32(\h01E9, \h131A), U32(\h01E5, \h73AC), U32(\h01E1, \hE1E1), U32(\h01DE, \h5D6E),
  U32(\h01DA, \hE607), U32(\h01D7, \h7B65), U32(\h01D4, \h1D41), U32(\h01D0, \hCB58),
  U32(\h01CD, \h8568), U32(\h01CA, \h4B30), U32(\h01C7, \h1C71), U32(\h01C3, \hF8F0),
  U32(\h01C0, \hE070), U32(\h01BD, \hD2B8), U32(\h01BA, \hCF91), U32(\h01B7, \hD6C3),
  U32(\h01B4, \hE81B), U32(\h01B2, \h0364), U32(\h01AF, \h286B), U32(\h01AC, \h5701),
  U32(\h01A9, \h8EF6), U32(\h01A6, \hD01A), U32(\h01A4, \h1A41), U32(\h01A1, \h6D3F),
  U32(\h019E, \hC8E9), U32(\h019C, \h2D14), U32(\h0199, \h9999), U32(\h0197, \h0E4F),
  U32(\h0194, \h8B0F), U32(\h0192, \h0FB4), U32(\h018F, \h9C18), U32(\h018D, \h3018),
  U32(\h018A, \hCB90), U32(\h0188, \h6E5F), U32(\h0186, \h1861), U32(\h0183, \hC977),
  U32(\h0181, \h8181), U32(\h017F, \h405F), U32(\h017D, \h05F4), U32(\h017A, \hD220),
  U32(\h0178, \hA4C8), U32(\h0176, \h7DCE), U32(\h0174, \h5D17), U32(\h0172, \h4287),
  U32(\h0170, \h2E05), U32(\h016E, \h1F76), U32(\h016C, \h16C1), U32(\h016A, \h13CD),
  U32(\h0168, \h1681), U32(\h0166, \h1EC6), U32(\h0164, \h2C85), U32(\h0162, \h3FA7),
  U32(\h0160, \h5816), U32(\h015E, \h75BB), U32(\h015C, \h9882), U32(\h015A, \hC056),
  U32(\h0158, \hED23), U32(\h0157, \h1ED3), U32(\h0155, \h5555), U32(\h0153, \h9094),
  U32(\h0151, \hD07E), U32(\h0150, \h1501), U32(\h014E, \h5E0A), U32(\h014C, \hAB88),
  U32(\h014A, \hFD6A), U32(\h0149, \h539E), U32(\h0147, \hAE14), U32(\h0146, \h0CBC),
  U32(\h0144, \h6F86), U32(\h0142, \hD662), U32(\h0141, \h4141), U32(\h013F, \hB013),
  U32(\h013E, \h22CB), U32(\h013C, \h995A), U32(\h013B, \h13B1), U32(\h0139, \h91C2),
  U32(\h0138, \h1381), U32(\h0136, \h98DF), U32(\h0135, \h21CF), U32(\h0133, \hAE45),
  U32(\h0132, \h3E34), U32(\h0130, \hD190), U32(\h012F, \h684B), U32(\h012E, \h025C),
  U32(\h012C, \h9FB4), U32(\h012B, \h404A), U32(\h0129, \hE412), U32(\h0128, \h8B01),
  U32(\h0127, \h350B), U32(\h0125, \hE227), U32(\h0124, \h9249), U32(\h0123, \h4567),
  U32(\h0121, \hFB78), U32(\h0120, \hB470), U32(\h011F, \h7047), U32(\h011E, \h2EF3),
  U32(\h011C, \hF06A), U32(\h011B, \hB4A4), U32(\h011A, \h7B96), U32(\h0119, \h4538),
  U32(\h0118, \h1181), U32(\h0116, \hE068), U32(\h0115, \hB1E5), U32(\h0114, \h85F0),
  U32(\h0113, \h5C81), U32(\h0112, \h358E), U32(\h0111, \h1111), U32(\h010F, \hEF01),
  U32(\h010E, \hCF56), U32(\h010D, \hB20A), U32(\h010C, \h9714), U32(\h010B, \h7E6E),
  U32(\h010A, \h6810), U32(\h0109, \h53F3), U32(\h0108, \h4210), U32(\h0107, \h3260),
  U32(\h0106, \h24DD), U32(\h0105, \h197F), U32(\h0104, \h1041), U32(\h0103, \h091B),
  U32(\h0102, \h0408), U32(\h0101, \h0101), U32(\h0100, \h0000), U32(\h00FF, \h00FF)
  >>

\* BitPrediction::new
BitPrediction_new == U32(\h8000, \h0000)

\* BitPrediction::get_prediction: (state >> 8) as u64
get_prediction(state) == Cast(ShrBytes(state, 1), 8)

\* BitPrediction::update: the value returned, `current_prediction as u64`
BitPrediction_update_return(state, bit) == Cast(ShrBytes(state, 1), 8)

\* variant of BitPrediction::update: the count is incremented at 255 too
BitPrediction_update_unsaturated(state, bit) ==
  LET count              == FromBytes(And(state, U32(0, \hFF)))
      current_prediction == Cast(ShrBytes(state, 1), 8)
      bit_shift          == ShlBytes(ToBytes(bit, 8), 3)
      multiplier         == Cast(MULTIPLIER[count + 1], 8)
      product            == WrappingMul(WrappingSub(bit_shift, current_prediction),
                                        multiplier)
      new_prediction     == Cast(SarBytes(product, 3), 4)
      increment          == 1
  IN  WrappingAdd(state,
                  WrappingAdd(And(new_prediction, U32(\hFFFF, \hFF00)),
                              ToBytes(increment, 4)))

\* variant of BitPrediction::update: the delta is shifted left by 8 before
\* it is masked
BitPrediction_update_shifted(state, bit) ==
  LET count              == FromBytes(And(state, U32(0, \hFF)))
      current_prediction == Cast(ShrBytes(state, 1), 8)
      bit_shift          == ShlBytes(ToBytes(bit, 8), 3)
      multiplier         == Cast(MULTIPLIER[count + 1], 8)
      product            == WrappingMul(WrappingSub(bit_shift, current_prediction),
                                        multiplier)
      new_prediction     == Cast(SarBytes(product, 3), 4)
      increment          == IF count < 255 THEN 1 ELSE 0
  IN  WrappingAdd(state,
                  WrappingAdd(And(ShlBytes(new_prediction, 1), U32(\hFFFF, \hFF00)),
                              ToBytes(increment, 4)))

\* BitPrediction::update: the new state word
BitPrediction_update(state, bit) ==
  LET count              == FromBytes(And(state, U32(0, \hFF)))
      current_prediction == Cast(ShrBytes(state, 1), 8)
      bit_shift          == ShlBytes(ToBytes(bit, 8), 3)
      multiplier         == Cast(MULTIPLIER[count + 1], 8)
      product            == WrappingMul(WrappingSub(bit_shift, current_prediction),
                                        multiplier)
      new_prediction     == Cast(SarBytes(product, 3), 4)
      increment          == IF count < 255 THEN 1 ELSE 0
  IN  WrappingAdd(state,
                  WrappingAdd(And(new_prediction, U32(\hFFFF, \hFF00)),
                              ToBytes(increment, 4)))

\* ------------------------------------------------------------------------
\* Range coder arithmetic (main.rs 99-183)
\* ------------------------------------------------------------------------

\* `(1024 + 256) * 1024`, the size of the predictor table (main.rs 282)
PredictorSize == (1024 + 256) * 1024

\* 0x80000000_00000000
TopBit == U64(\h8000, 0, 0, 0)

\* the table is a vector of PredictorSize words, all BitPrediction::new
\* at construction; `states` holds the entries written so far
StateAt(tbl, context) ==
  IF context \in DOMAIN tbl THEN tbl[context] ELSE BitPrediction_new

\* (((high - low) as u128 * prediction as u128) >> 24) as u64
BitDelta(lo, hi, prediction) ==
  Cast(ShrBytes(Mul(WrappingSub(hi, lo), prediction), 3), 8)

\* variant of BitMid: the `^ 1` is dropped
BitMid_plain(lo, delta, bit) ==
  WrappingAdd(WrappingAdd(lo, delta), ToBytes(bit, 8))

\* low + delta + (bit ^ 1) as u64
BitMid(lo, delta, bit) ==
  WrappingAdd(WrappingAdd(lo, delta), ToBytes(XorInt(bit, 1), 8))

\* (high ^ low) & 0x80000000_00000000 == 0, the test of the shift loop
SameTopBit(lo, hi) == And(Xor(hi, lo), TopBit) = Zero(8)

\* if self.low >= 0x80000000_00000000 { 1 } else { 0 }
LowTopBit(lo) == IF ~Less(lo, TopBit) THEN 1 ELSE 0

\* variant of BufferPush: the buffer is widened instead of wrapping
BufferPush_wide(buf, b) == buf + buf + b

\* bit_buffer + bit_buffer + b in u8
BufferPush(buf, b) == (buf + buf + b) % B8

\* high + high + 1 in u64
HighShift(hi) == WrappingAdd(WrappingAdd(hi, hi), ToBytes(1, 8))

\* low + low in u64
LowShift(lo) == WrappingAdd(lo, lo)

\* bit_buffer <<= 8 - bit_count
FlushPad(buf, count) == (buf * 2^(8 - count)) % B8

\* variant of BitEncoder::byte: the low nibble is coded in one block,
\* whatever the high nibble
BitEncoder_byte_flat(context, byte) ==
  LET hi          == OrInt(byte \div 16, 16)
      low_context == context + 15
      lo          == OrInt(AndInt(byte, 15), 16)
  IN  << [context |-> context + 1,                bit |-> AndInt(hi \div 8, 1)],
         [context |-> context + (hi \div 8),      bit |-> AndInt(hi \div 4, 1)],
         [context |-> context + (hi \div 4),      bit |-> AndInt(hi \div 2, 1)],
         [context |-> context + (hi \div 2),      bit |-> AndInt(hi, 1)],
         [context |-> low_context + 1,            bit |-> AndInt(lo \div 8, 1)],
         [context |-> low_context + (lo \div 8),  bit |-> AndInt(lo \div 4, 1)],
         [context |-> low_context + (lo \div 4),  bit |-> AndInt(lo \div 2, 1)],
         [context |-> low_context + (lo \div 2),  bit |-> AndInt(lo, 1)] >>

\* BitEncoder::byte: the eight bit() calls it makes, in order
BitEncoder_byte(context, byte) ==
  LET hi          == OrInt(byte \div 16, 16)
      low_context == context + 15 * (hi - 15)
      lo          == OrInt(AndInt(byte, 15), 16)
  IN  << [context |-> context + 1,                bit |-> AndInt(hi \div 8, 1)],
         [context |-> context + (hi \div 8),      bit |-> AndInt(hi \div 4, 1)],
         [context |-> context + (hi \div 4),      bit |-> AndInt(hi \div 2, 1)],
         [context |-> context + (hi \div 2),      bit |-> AndInt(hi, 1)],
         [context |-> low_context + 1,            bit |-> AndInt(lo \div 8, 1)],
         [context |-> low_context + (lo \div 8),  bit |-> AndInt(lo \div 4, 1)],
         [context |-> low_context + (lo \div 4),  bit |-> AndInt(lo \div 2, 1)],
         [context |-> low_context + (lo \div 2),  bit |-> AndInt(lo, 1)] >>

\* ------------------------------------------------------------------------
\* Byte-history cell (main.rs 187-238)
\* ------------------------------------------------------------------------

\* MatchingContext::new
MatchingContext_new == U32(0, 0)

get_first(value) == FromBytes(Cast(value, 1))

get_second(value) == FromBytes(Cast(ShrBytes(value, 1), 1))

get_third(value) == FromBytes(Cast(ShrBytes(value, 2), 1))

get_count(value) == FromBytes(ShrBytes(value, 3))

\* variant of update_match: the first test masks the count, not the first byte
MatchingContext_update_match_nofirst(value, next_byte) ==
  LET next == ToBytes(next_byte, 4)
      mask == Xor(value, WrappingMul(U32(\h0001, \h0101), next))
  IN  IF And(mask, U32(\hFF00, 0)) = Zero(4)
      THEN [value   |-> WrappingAdd(value,
                          IF Less(value, U32(\hFF00, 0)) THEN U32(\h0100, 0)
                                                          ELSE Zero(4)),
            matched |-> "FIRST"]
      ELSE IF And(mask, U32(0, \hFF00)) = Zero(4)
      THEN [value   |-> Or(Or(Or(And(value, U32(\h00FF, 0)),
                                 And(ShlBytes(value, 1), U32(0, \hFF00))),
                              next),
                           U32(\h0100, 0)),
            matched |-> "SECOND"]
      ELSE IF And(mask, U32(\h00FF, 0)) = Zero(4)
      THEN [value   |-> Or(Or(And(ShlBytes(value, 1), U32(\h00FF, \hFF00)), next),
                           U32(\h0100, 0)),
            matched |-> "THIRD"]
      ELSE [value   |-> Or(And(ShlBytes(value, 1), U32(\h00FF, \hFF00)), next),
            matched |-> "NONE"]

\* variant of update_match: the second arm does not set the count to 1
MatchingContext_update_match_nocount(value, next_byte) ==
  LET next == ToBytes(next_byte, 4)
      mask == Xor(value, WrappingMul(U32(\h0001, \h0101), next))
  IN  IF And(mask, U32(0, \h00FF)) = Zero(4)
      THEN [value   |-> WrappingAdd(value,
                          IF Less(value, U32(\hFF00, 0)) THEN U32(\h0100, 0)
                                                          ELSE Zero(4)),
            matched |-> "FIRST"]
      ELSE IF And(mask, U32(0, \hFF00)) = Zero(4)
      THEN [value   |-> Or(Or(Or(And(value, U32(\h00FF, 0)),
                                 And(ShlBytes(value, 1), U32(0, \hFF00))),
                              next),
                           Zero(4)),
            matched |-> "SECOND"]
      ELSE IF And(mask, U32(\h00FF, 0)) = Zero(4)
      THEN [value   |-> Or(Or(And(ShlBytes(value, 1), U32(\h00FF, \hFF00)), next),
                           U32(\h0100, 0)),
            matched |-> "THIRD"]
      ELSE [value   |-> Or(And(ShlBytes(value, 1), U32(\h00FF, \hFF00)), next),
            matched |-> "NONE"]

\* MatchingContext::update_match: the new word and the outcome
MatchingContext_update_match(value, next_byte) ==
  LET next == ToBytes(next_byte, 4)
      mask == Xor(value, WrappingMul(U32(\h0001, \h0101), next))
  IN  IF And(mask, U32(0, \h00FF)) = Zero(4)
      THEN [value   |-> WrappingAdd(value,
                          IF Less(value, U32(\hFF00, 0)) THEN U32(\h0100, 0)
                                                          ELSE Zero(4)),
            matched |-> "FIRST"]
      ELSE IF And(mask, U32(0, \hFF00)) = Zero(4)
      THEN [value   |-> Or(Or(Or(And(value, U32(\h00FF, 0)),
                                 And(ShlBytes(value, 1), U32(0, \hFF00))),
                              next),
                           U32(\h0100, 0)),
            matched |-> "SECOND"]
      ELSE IF And(mask, U32(\h00FF, 0)) = Zero(4)
      THEN [value   |-> Or(Or(And(ShlBytes(value, 1), U32(\h00FF, \hFF00)), next),
                           U32(\h0100, 0)),
            matched |-> "THIRD"]
      ELSE [value   |-> Or(And(ShlBytes(value, 1), U32(\h00FF, \hFF00)), next),
            matched |-> "NONE"]

\* ------------------------------------------------------------------------
\* Context map (main.rs 242-268, primary_context/context.rs 24-82)
\* ------------------------------------------------------------------------

\* the exponent main() passes to StreamEncoder::new (main.rs 361)
ContextSizeLog == 24

\* contexts.len() == 1 << size_log
MapLen(log) == 2^log

\* the map is a vector of MapLen cells, all MatchingContext::new at
\* construction; `contexts` holds the cells written so far
CellAt(map, hash) ==
  IF hash \in DOMAIN map THEN map[hash] ELSE MatchingContext_new

\* variant of NextHash: the mask is the length, not the length less one
NextHash_len(hash, next_byte, len) ==
  FromBytes(And(WrappingAdd(WrappingAdd(WrappingMul(ToBytes(hash, 8),
                                                     ToBytes(5 * 2^5, 8)),
                                         ToBytes(next_byte, 8)),
                            ToBytes(1, 8)),
                ToBytes(len, 8)))

\* (hash_value * (5 << 5) + next_byte as usize + 1) & (contexts.len() - 1)
NextHash(hash, next_byte, len) ==
  FromBytes(And(WrappingAdd(WrappingAdd(WrappingMul(ToBytes(hash, 8),
                                                     ToBytes(5 * 2^5, 8)),
                                         ToBytes(next_byte, 8)),
                            ToBytes(1, 8)),
                ToBytes(len - 1, 8)))

RECURSIVE ModWord(_, _)
\* w % m for a word w and m < 2^27: long division, four bits at a time,
\* from the most significant byte
ModWord(w, m) ==
  IF w = << >> THEN 0
  ELSE LET r == ModWord(Tail(w), m)
       IN  (((r * 16 + (Head(w) \div 16)) % m) * 16 + (Head(w) % 16)) % m

\* PrimaryContext::update: (hash_value * (5 << 5) + next_byte as usize + 1) % SIZE
PrimaryContext_update(hash, next_byte, SIZE) ==
  ModWord(WrappingAdd(WrappingAdd(WrappingMul(ToBytes(hash, 8),
                                              ToBytes(5 * 2^5, 8)),
                                  ToBytes(next_byte, 8)),
                      ToBytes(1, 8)),
          SIZE)

\* MatchingContexts::update_match
MatchingContexts_update_match(map, hash, log, next_byte) ==
  LET r == MatchingContext_update_match(CellAt(map, hash), next_byte)
  IN  [contexts   |-> [h \in DOMAIN map \cup {hash} |->
                         IF h = hash THEN r.value ELSE map[h]],
       last_byte  |-> next_byte,
       hash_value |-> NextHash(hash, next_byte, MapLen(log)),
       matched    |-> r.matched]

\* ------------------------------------------------------------------------
\* Stream encoder: the contexts of one loop iteration (main.rs 291-309)
\* ------------------------------------------------------------------------

\* variant of LoopContexts: the literal contexts start one entry later
LoopContexts_literal(value, last) ==
  LET count       == get_count(value)
      bit_context == (IF count < 4 THEN OrInt(last * 4, count)
                                   ELSE 1024 + count) * 1024
      first_byte  == get_first(value)
      second_byte == get_second(value)
      third_byte  == get_third(value)
  IN  [bit_context     |-> bit_context,
       first_byte      |-> first_byte,
       first_context   |-> bit_context + first_byte,
       second_context  |-> bit_context + 256 + ((second_byte + third_byte) % B8),
       third_context   |-> bit_context + 512
                             + ((((second_byte * 2) % B8) - third_byte + B8) % B8),
       literal_context |-> bit_context + 769]

\* the contexts of one loop iteration, from the current cell and last_byte
LoopContexts(value, last) ==
  LET count       == get_count(value)
      bit_context == (IF count < 4 THEN OrInt(last * 4, count)
                                   ELSE 1024 + count) * 1024
      first_byte  == get_first(value)
      second_byte == get_second(value)
      third_byte  == get_third(value)
  IN  [bit_context     |-> bit_context,
       first_byte      |-> first_byte,
       first_context   |-> bit_context + first_byte,
       second_context  |-> bit_context + 256 + ((second_byte + third_byte) % B8),
       third_context   |-> bit_context + 512
                             + ((((second_byte * 2) % B8) - third_byte + B8) % B8),
       literal_context |-> bit_context + 768]

\* variant of ArmDecisions: the SECOND and THIRD arms exchanged
ArmDecisions_swapped(matched, c, current_byte) ==
  CASE matched = "FIRST"  -> << [context |-> c.first_context,  bit |-> 0] >>
    [] matched = "SECOND" -> << [context |-> c.first_context,  bit |-> 1],
                                [context |-> c.second_context, bit |-> 1],
                                [context |-> c.third_context,  bit |-> 1] >>
    [] matched = "THIRD"  -> << [context |-> c.first_context,  bit |-> 1],
                                [context |-> c.second_context, bit |-> 1],
                                [context |-> c.third_context,  bit |-> 0] >>
    [] matched = "NONE"   -> << [context |-> c.first_context,  bit |-> 1],
                                [context |-> c.second_context, bit |-> 0] >>
                             \o BitEncoder_byte(c.literal_context, current_byte)

\* the bit() calls of the arm of the match at main.rs 321-340
ArmDecisions(matched, c, current_byte) ==
  CASE matched = "FIRST"  -> << [context |-> c.first_context,  bit |-> 0] >>
    [] matched = "SECOND" -> << [context |-> c.first_context,  bit |-> 1],
                                [context |-> c.second_context, bit |-> 1],
                                [context |-> c.third_context,  bit |-> 0] >>
    [] matched = "THIRD"  -> << [context |-> c.first_context,  bit |-> 1],
                                [context |-> c.second_context, bit |-> 1],
                                [context |-> c.third_context,  bit |-> 1] >>
    [] matched = "NONE"   -> << [context |-> c.first_context,  bit |-> 1],
                                [context |-> c.second_context, bit |-> 0] >>
                             \o BitEncoder_byte(c.literal_context, current_byte)

\* variant of EofDecisions: the literal coded is the byte 0
EofDecisions_zero(c) ==
  << [context |-> c.first_context,  bit |-> 1],
     [context |-> c.second_context, bit |-> 0] >>
  \o BitEncoder_byte(c.literal_context, 0)

\* the bit() calls of the end-of-stream branch at main.rs 312-316
EofDecisions(c) ==
  << [context |-> c.first_context,  bit |-> 1],
     [context |-> c.second_context, bit |-> 0] >>
  \o BitEncoder_byte(c.literal_context, c.first_byte)

\* ------------------------------------------------------------------------
\* State
\* ------------------------------------------------------------------------

VARIABLES
  pc,          \* position of encode(): "loop", "bit", "flush_bit", "flush", "return";
               \* "map", "byte", "update" when a context map, byte() or a
               \* predictor is driven on its own
  result,      \* what encode() returned: "running", "Ok", "ReadErr", "WriteErr", "panic"
  low,         \* BitEncoder.low
  high,        \* BitEncoder.high
  states,      \* BitEncoder.states, the entries written so far
  bit_buffer,  \* BitEncoder.bit_buffer
  bit_count,   \* BitEncoder.bit_count
  output,      \* the bytes the sink has accepted
  contexts,    \* MatchingContexts.contexts, the cells written so far
  last_byte,   \* MatchingContexts.last_byte
  hash_value,  \* MatchingContexts.hash_value
  size_log,    \* the size_log the map was built with
  pending,     \* the bit() calls encode() still makes before it reads again
  eof,         \* TRUE once a read returned zero bytes
  input,       \* history: the bytes read so far
  head,        \* history: cell word, last_byte and hash_value at the top of
               \*          the current loop iteration
  matched,     \* history: outcome of the last update_match ("EOF" at end of stream)
  coded,       \* history: the bit() calls made in the current loop iteration
  shifted,     \* history: the bits the coder has put into bit_buffer
  ops,         \* history: number of reads, bit() calls, shifts, writes, flush()
               \*          calls, failed reads and failed writes
  wrapped      \* history: the additions that exceeded their width

coderVars == <<low, high, states, bit_buffer, bit_count, output>>

mapVars == <<contexts, last_byte, hash_value, size_log>>

histVars == <<input, head, matched, coded, shifted, ops, wrapped>>

vars == <<pc, result, coderVars, mapVars, pending, eof, histVars>>

\* ------------------------------------------------------------------------
\* Construction (main.rs 109-118, 249-255, 279-285)
\* ------------------------------------------------------------------------

NoOps ==
  [reads |-> 0, bits |-> 0, shifts |-> 0, writes |-> 0, flushes |-> 0,
   read_failures |-> 0, write_failures |-> 0]

\* BitEncoder::new
BitEncoder_new ==
  /\ low = U64(0, 0, 0, 0)
  /\ high = U64(\hFFFF, \hFFFF, \hFFFF, \hFFFF)
  /\ states = << >>
  /\ bit_buffer = 0
  /\ bit_count = 0
  /\ output = << >>

\* MatchingContexts::new(size_log)
MatchingContexts_new(log) ==
  /\ last_byte = 0
  /\ hash_value = 0
  /\ contexts = << >>
  /\ size_log = log

HistInit ==
  /\ input = << >>
  /\ head = [value |-> MatchingContext_new, last_byte |-> 0, hash_value |-> 0]
  /\ matched = "-"
  /\ coded = << >>
  /\ shifted = << >>
  /\ ops = NoOps
  /\ wrapped = {}

\* the exponents StreamEncoder::new is built with: the one of main() and
\* the smallest, where every byte meets the same cell
SizeLogs == {0, ContextSizeLog}

\* StreamEncoder::new
Init ==
  /\ pc = "loop"
  /\ result = "running"
  /\ BitEncoder_new
  /\ \E log \in SizeLogs : MatchingContexts_new(log)
  /\ pending = << >>
  /\ eof = FALSE
  /\ HistInit

\* ------------------------------------------------------------------------
\* StreamEncoder::encode (main.rs 287-343)
\* ------------------------------------------------------------------------

Count(field) == [ops EXCEPT ![field] = @ + 1]

HeadNow ==
  [value |-> CellAt(contexts, hash_value), last_byte |-> last_byte,
   hash_value |-> hash_value]

\* main.rs 312: the read fails, `?` returns the error
ReadError ==
  /\ pc = "loop"
  /\ pc' = "return"
  /\ result' = "ReadErr"
  /\ ops' = [ops EXCEPT !.reads = @ + 1, !.read_failures = @ + 1]
  /\ UNCHANGED <<coderVars, mapVars, pending, eof, input, head, matched, coded,
                 shifted, wrapped>>

\* main.rs 312-316: the read returns zero bytes
ReadEof ==
  /\ pc = "loop"
  /\ pc' = "bit"
  /\ eof' = TRUE
  /\ pending' = EofDecisions(LoopContexts(CellAt(contexts, hash_value), last_byte))
  /\ ops' = Count("reads")
  /\ head' = HeadNow
  /\ matched' = "EOF"
  /\ coded' = << >>
  /\ UNCHANGED <<result, coderVars, mapVars, input, shifted, wrapped>>

\* main.rs 319-340: the read returns the byte current_byte
Read(current_byte) ==
  /\ pc = "loop"
  /\ LET c == LoopContexts(CellAt(contexts, hash_value), last_byte)
         m == MatchingContexts_update_match(contexts, hash_value, size_log,
                                            current_byte)
     IN  /\ contexts' = m.contexts
         /\ last_byte' = m.last_byte
         /\ hash_value' = m.hash_value
         /\ matched' = m.matched
         /\ pending' = ArmDecisions(m.matched, c, current_byte)
  /\ pc' = "bit"
  /\ input' = Append(input, current_byte)
  /\ ops' = Count("reads")
  /\ head' = HeadNow
  /\ coded' = << >>
  /\ UNCHANGED <<result, coderVars, size_log, eof, shifted, wrapped>>

\* the source delivers at most MaxLen bytes, then end of stream
ReadByte(current_byte) ==
  /\ Len(input) < MaxLen
  /\ Read(current_byte)

\* BitEncoder::bit up to the call of flush_bit (main.rs 120-132)
Bit ==
  /\ pc = "bit"
  /\ LET d          == Head(pending)
         prediction == BitPrediction_update_return(StateAt(states, d.context), d.bit)
         delta      == BitDelta(low, high, prediction)
         mid        == BitMid(low, delta, d.bit)
     IN  /\ pending' = Tail(pending)
         /\ coded' = Append(coded, d)
         /\ ops' = Count("bits")
         /\ IF d.context >= PredictorSize
            THEN \* index out of bounds
                 /\ pc' = "return"
                 /\ result' = "panic"
                 /\ UNCHANGED <<low, high, states, wrapped>>
            ELSE /\ states' = [x \in DOMAIN states \cup {d.context} |->
                                 IF x = d.context
                                 THEN BitPrediction_update(StateAt(states, x), d.bit)
                                 ELSE states[x]]
                 /\ IF Less(low, high) /\ ~Less(mid, low) /\ Less(mid, high)
                    THEN /\ low' = IF d.bit # 0 THEN low ELSE mid
                         /\ high' = IF d.bit # 0 THEN mid ELSE high
                         /\ pc' = "flush_bit"
                         /\ result' = result
                         /\ wrapped' = wrapped \cup
                              IF AddOverflows(low, delta)
                                 \/ AddOverflows(WrappingAdd(low, delta),
                                                 ToBytes(XorInt(d.bit, 1), 8))
                              THEN {"mid"} ELSE {}
                    ELSE \* an assert! fails
                         /\ pc' = "return"
                         /\ result' = "panic"
                         /\ UNCHANGED <<low, high, wrapped>>
  /\ UNCHANGED <<bit_buffer, bit_count, output, mapVars, eof, input, head, matched,
                 shifted>>

\* where encode() continues when a bit() call has returned Ok
AfterBit ==
  IF pending # << >> THEN "bit" ELSE IF eof THEN "flush" ELSE "loop"

\* variant of BufferFull: the byte is written one bit early
BufferFull_early(count) == count = 7

\* if self.bit_count == 8 (main.rs 165)
BufferFull(count) == count = 8

\* variant of AfterWrite: the failure of the write is not looked at
AfterWrite_ignored(ok) == "flush_bit"

\* self.output.write_all(&[self.bit_buffer])? (main.rs 166): the loop goes
\* on when the write succeeded, flush_bit returns the error otherwise
AfterWrite(ok) == IF ok THEN "flush_bit" ELSE "return"

\* one iteration of the loop of flush_bit (main.rs 156-169); `ok` tells
\* whether the sink accepts the byte when one is written
FlushBitShift(ok) ==
  /\ pc = "flush_bit"
  /\ SameTopBit(low, high)
  /\ bit_buffer' = BufferPush(bit_buffer, LowTopBit(low))
  /\ high' = HighShift(high)
  /\ low' = LowShift(low)
  /\ shifted' = Append(shifted, LowTopBit(low))
  /\ wrapped' = wrapped
       \cup (IF bit_buffer + bit_buffer + LowTopBit(low) >= B8 THEN {"bit_buffer"} ELSE {})
       \cup (IF AddOverflows(high, high)
                \/ AddOverflows(WrappingAdd(high, high), ToBytes(1, 8))
             THEN {"high"} ELSE {})
       \cup (IF AddOverflows(low, low) THEN {"low"} ELSE {})
  /\ IF BufferFull(bit_count + 1)
     THEN /\ ops' = IF ok THEN [ops EXCEPT !.shifts = @ + 1, !.writes = @ + 1]
                    ELSE [ops EXCEPT !.shifts = @ + 1, !.writes = @ + 1,
                                     !.write_failures = @ + 1]
          /\ output' = IF ok THEN Append(output, bit_buffer') ELSE output
          /\ bit_count' = IF ok THEN 0 ELSE bit_count + 1
          /\ pc' = AfterWrite(ok)
          /\ result' = IF pc' = "return" THEN "WriteErr" ELSE result
     ELSE /\ ok
          /\ bit_count' = bit_count + 1
          /\ ops' = Count("shifts")
          /\ UNCHANGED <<output, pc, result>>
  /\ UNCHANGED <<states, mapVars, pending, eof, input, head, matched, coded>>

\* the loop of flush_bit ends and bit() returns Ok (main.rs 156, 171, 133)
FlushBitReturn ==
  /\ pc = "flush_bit"
  /\ ~SameTopBit(low, high)
  /\ pc' = AfterBit
  /\ UNCHANGED <<result, coderVars, mapVars, pending, eof, histVars>>

\* BitEncoder::flush and the return of encode() (main.rs 174-182, 316)
Flush(ok) ==
  /\ pc = "flush"
  /\ bit_buffer' = FlushPad(BufferPush(bit_buffer, LowTopBit(low)), bit_count + 1)
  /\ bit_count' = bit_count + 1
  /\ shifted' = Append(shifted, LowTopBit(low))
  /\ wrapped' = wrapped
       \cup (IF bit_buffer + bit_buffer + LowTopBit(low) >= B8 THEN {"bit_buffer"} ELSE {})
  /\ output' = IF ok THEN Append(output, bit_buffer') ELSE output
  /\ ops' = IF ok THEN [ops EXCEPT !.flushes = @ + 1, !.writes = @ + 1]
            ELSE [ops EXCEPT !.flushes = @ + 1, !.writes = @ + 1,
                             !.write_failures = @ + 1]
  /\ pc' = "return"
  /\ result' = IF ok THEN "Ok" ELSE "WriteErr"
  /\ UNCHANGED <<low, high, states, mapVars, pending, eof, input, head, matched, coded>>

Next ==
  \/ ReadError
  \/ ReadEof
  \/ \E b \in Bytes : ReadByte(b)
  \/ Bit
  \/ FlushBitShift(TRUE)
  \/ FlushBitShift(FALSE)
  \/ FlushBitReturn
  \/ Flush(TRUE)
  \/ Flush(FALSE)

Spec == Init /\ [][Next]_vars

\* ------------------------------------------------------------------------
\* The context map driven on its own (main.rs 242-268)
\* ------------------------------------------------------------------------

\* MatchingContexts::update_match(next_byte)
Matching(next_byte) ==
  /\ pc = "map"
  /\ LET m == MatchingContexts_update_match(contexts, hash_value, size_log, next_byte)
     IN  /\ contexts' = m.contexts
         /\ last_byte' = m.last_byte
         /\ hash_value' = m.hash_value
         /\ matched' = m.matched
  /\ UNCHANGED <<pc, result, coderVars, size_log, pending, eof, input, head, coded,
                 shifted, ops, wrapped>>

\* MatchingContexts::update_match(next_byte), the bytes fed being recorded
Feed(next_byte) ==
  /\ pc = "map"
  /\ Len(input) < MaxFeed
  /\ LET m == MatchingContexts_update_match(contexts, hash_value, size_log, next_byte)
     IN  /\ contexts' = m.contexts
         /\ last_byte' = m.last_byte
         /\ hash_value' = m.hash_value
         /\ matched' = m.matched
  /\ input' = Append(input, next_byte)
  /\ head' = HeadNow
  /\ UNCHANGED <<pc, result, coderVars, size_log, pending, eof, coded, shifted, ops,
                 wrapped>>

\* the exponents of the maps driven on their own
MapSizeLogs == 0..MaxSmallLog \cup {ContextSizeLog}

MapInit(logs) ==
  /\ pc = "map"
  /\ result = "running"
  /\ BitEncoder_new
  /\ \E log \in logs : MatchingContexts_new(log)
  /\ pending = << >>
  /\ eof = FALSE
  /\ HistInit

\* a map of one cell: every byte meets the same history cell
CellInit == MapInit({0})

CellNext == \E b \in Bytes : Matching(b)

CellSpec == CellInit /\ [][CellNext]_vars

\* maps of several sizes fed with every byte sequence up to MaxFeed bytes
FeedInit == MapInit(MapSizeLogs)

FeedNext == \E b \in Bytes : Feed(b)

MapSpec == FeedInit /\ [][FeedNext]_vars

\* ------------------------------------------------------------------------
\* The decoder of spec section 1 and 4.2: the same models and tables, the
\* inverse of the bit coding step, missing bytes read as zero.  It is not
\* part of the sources.
\* ------------------------------------------------------------------------

\* bit number pos (from 0, most significant bit of the first byte first)
\* of the stream; zero past its end
StreamBit(data, pos) ==
  IF pos \div 8 + 1 > Len(data) THEN 0
  ELSE (data[pos \div 8 + 1] \div 2^(7 - (pos % 8))) % 2

\* the first 64 bits of the stream as a u64
StreamStart(data) ==
  [i \in 1..8 |-> IF 9 - i > Len(data) THEN 0 ELSE data[9 - i]]

Decoder_new(data, log) ==
  [low |-> U64(0, 0, 0, 0), high |-> U64(\hFFFF, \hFFFF, \hFFFF, \hFFFF),
   x |-> StreamStart(data), pos |-> 64, states |-> << >>,
   contexts |-> << >>, last_byte |-> 0, hash_value |-> 0, size_log |-> log,
   bit |-> 0, out |-> << >>]

RECURSIVE Decoder_shift(_, _)
\* the shift loop of the decoder: as flush_bit, the stream shifted into x
Decoder_shift(d, data) ==
  IF SameTopBit(d.low, d.high)
  THEN Decoder_shift([d EXCEPT !.low = LowShift(d.low),
                               !.high = HighShift(d.high),
                               !.x = WrappingAdd(WrappingAdd(d.x, d.x),
                                                 ToBytes(StreamBit(data, d.pos), 8)),
                               !.pos = d.pos + 1],
                     data)
  ELSE d

\* decode one bit under a context: the bit is 1 iff x lies in [low, low + delta]
Decoder_bit(d, data, context) ==
  LET state == StateAt(d.states, context)
      delta == BitDelta(d.low, d.high, get_prediction(state))
      bit   == IF Less(BitMid(d.low, delta, 1), d.x) THEN 0 ELSE 1
      mid   == BitMid(d.low, delta, bit)
  IN  Decoder_shift(
        [d EXCEPT !.states = [c \in DOMAIN d.states \cup {context} |->
                                IF c = context THEN BitPrediction_update(state, bit)
                                ELSE d.states[c]],
                  !.low = IF bit # 0 THEN d.low ELSE mid,
                  !.high = IF bit # 0 THEN mid ELSE d.high,
                  !.bit = bit],
        data)

RECURSIVE Decoder_nibble(_, _, _, _, _)
\* walk one 15-context tree: node is 1 at the root, 16..31 at the leaves
Decoder_nibble(d, data, base, node, levels) ==
  IF levels = 0 THEN [d EXCEPT !.bit = node]
  ELSE LET e == Decoder_bit(d, data, base + node)
       IN  Decoder_nibble(e, data, base, 2 * node + e.bit, levels - 1)

\* the inverse of BitEncoder::byte; the byte is left in .bit
Decoder_byte(d, data, context) ==
  LET h == Decoder_nibble(d, data, context, 1, 4)
      l == Decoder_nibble(h, data, context + 15 * (h.bit - 15), 1, 4)
  IN  [l EXCEPT !.bit = (h.bit - 16) * 16 + (l.bit - 16)]

\* decode one input byte and update the context map with it
Decoder_symbol(d, data) ==
  LET value == CellAt(d.contexts, d.hash_value)
      c     == LoopContexts(value, d.last_byte)
      b1    == Decoder_bit(d, data, c.first_context)
      b2    == Decoder_bit(b1, data, c.second_context)
      b3    == Decoder_bit(b2, data, c.third_context)
      lit   == Decoder_byte(b2, data, c.literal_context)
      e     == IF b1.bit = 0 THEN [b1 EXCEPT !.bit = get_first(value)]
               ELSE IF b2.bit = 0 THEN lit
               ELSE IF b3.bit = 0 THEN [b3 EXCEPT !.bit = get_second(value)]
               ELSE [b3 EXCEPT !.bit = get_third(value)]
      m     == MatchingContexts_update_match(e.contexts, e.hash_value, e.size_log, e.bit)
  IN  [e EXCEPT !.contexts = m.contexts, !.last_byte = m.last_byte,
                !.hash_value = m.hash_value, !.out = Append(e.out, e.bit)]

RECURSIVE Decoder_run(_, _, _)
Decoder_run(d, data, n) ==
  IF n = 0 THEN d.out ELSE Decoder_run(Decoder_symbol(d, data), data, n - 1)

\* the first n bytes the decoder recovers from the stream
Decode(data, n, log) == Decoder_run(Decoder_new(data, log), data, n)

\* ------------------------------------------------------------------------
\* Claims
\* ------------------------------------------------------------------------

\* C1: round trip.  Whenever encode() has returned success, the decoder,
\* told the length of the input, recovers the input from the bytes written.
C1_RoundTrip ==
  result = "Ok" => Decode(output, Len(input), size_log) = input

\* the outcome of matching(b) on a cell, by its fields
FieldOutcome(value, b) ==
  IF b = get_first(value) THEN "FIRST"
  ELSE IF b = get_second(value) THEN "SECOND"
  ELSE IF b = get_third(value) THEN "THIRD"
  ELSE "NONE"

\* the decision sequence of an outcome: pairs <<context, bit>>
OutcomeSequence(outcome, c, b) ==
  CASE outcome = "FIRST"  -> << <<c.first_context, 0>> >>
    [] outcome = "SECOND" -> << <<c.first_context, 1>>, <<c.second_context, 1>>,
                                <<c.third_context, 0>> >>
    [] outcome = "THIRD"  -> << <<c.first_context, 1>>, <<c.second_context, 1>>,
                                <<c.third_context, 1>> >>
    [] outcome = "NONE"   -> << <<c.first_context, 1>>, <<c.second_context, 0>> >>
                             \o [i \in 1..8 |->
                                   LET d == BitEncoder_byte(c.literal_context, b)[i]
                                   IN  <<d.context, d.bit>>]

Pairs(decisions) ==
  [i \in 1..Len(decisions) |-> <<decisions[i].context, decisions[i].bit>>]

RealOutcomes == {"FIRST", "SECOND", "THIRD", "NONE"}

C2_Inv ==
  matched \in RealOutcomes =>
    LET b        == input[Len(input)]
        c        == LoopContexts(head.value, head.last_byte)
        expected == OutcomeSequence(FieldOutcome(head.value, b), c, b)
    IN  /\ matched = FieldOutcome(head.value, b)
        /\ Pairs(coded \o pending) = expected
        /\ pc = "loop" => Pairs(coded) = expected

C2_Step ==
  /\ ops'.reads # ops.reads => pending = << >>
  /\ input' # input =>
       LET b == input'[Len(input')]
           v == CellAt(contexts, hash_value)
       IN  /\ head' = [value |-> v, last_byte |-> last_byte, hash_value |-> hash_value]
           /\ Pairs(pending') =
                OutcomeSequence(FieldOutcome(v, b), LoopContexts(v, last_byte), b)

\* C2: every input byte is coded as the decision sequence of the outcome of
\* matching(b) on the cell at the current hash (FIRST: 0; SECOND: 1,1,0;
\* THIRD: 1,1,1; NONE: 1,0 and the literal), under contexts taken from the
\* cell and the previous byte as they were before matching(b), and the
\* decisions of a byte are all coded before the next read.
C2_DecisionSequence == []C2_Inv /\ [][C2_Step]_vars

\* a byte matched the third byte of its cell and its three decisions are coded
C2_Witness == matched = "THIRD" /\ pc = "loop" /\ Len(coded) = 3

C3_Inv ==
  /\ ops.flushes <= 1
  /\ ops.flushes = 1 => pc = "return"
  /\ result = "Ok" =>
       LET c == LoopContexts(head.value, head.last_byte)
       IN  /\ eof
           /\ matched = "EOF"
           /\ head = HeadNow
           /\ pending = << >>
           /\ Pairs(coded) =
                << <<c.first_context, 1>>, <<c.second_context, 0>> >>
                \o [i \in 1..8 |->
                      LET d == BitEncoder_byte(c.literal_context,
                                               get_first(head.value))[i]
                      IN  <<d.context, d.bit>>]
           /\ ops.flushes = 1
           /\ ops.reads = Len(input) + 1
           /\ ops.read_failures = 0 /\ ops.write_failures = 0

\* C3: encode returns success only after a read of zero bytes; it then codes
\* 1 under first_ctx, 0 under second_ctx and the cell's first byte under
\* literal_ctx and calls flush once, and nothing changes after flush.
C3_FlushLast == []C3_Inv /\ [][ops.flushes > 0 => UNCHANGED vars]_vars

\* encode has succeeded on an input whose last cell has a non-zero first byte
C3_Witness == result = "Ok" /\ input # << >> /\ get_first(head.value) # 0

\* the property of a state at the top of the loop that claim C4 says some
\* reachable state has: some byte is coded with the NONE pattern and is
\* equal to the first byte of the current cell
C4_Alike ==
  \E b \in 0..255 :
    LET v == CellAt(contexts, hash_value)
    IN  /\ MatchingContext_update_match(v, b).matched = "NONE"
        /\ b = get_first(v)

\* C4 as claimed, for the states at the top of the loop
C4_Original == pc = "loop" => C4_Alike

\* C4 (amended): in no reachable state is a byte equal to the first byte of
\* the current cell coded with the NONE pattern, and the decision sequence
\* of every byte read differs from the sentinel's in the same state.
C4_Distinguishable ==
  /\ pc = "loop" => ~C4_Alike
  /\ matched \in RealOutcomes =>
       Pairs(coded \o pending)
         # Pairs(EofDecisions(LoopContexts(head.value, head.last_byte)))

\* a byte has been coded with the NONE pattern from a cell seen before
C4_Witness ==
  matched = "NONE" /\ pc = "loop" /\ get_first(head.value) # 0

C5_Inv ==
  LET failures == ops.read_failures + ops.write_failures
  IN  /\ failures <= 1
      /\ failures = 1 => pc = "return"
      /\ ops.read_failures = 1 <=> result = "ReadErr"
      /\ ops.write_failures = 1 <=> result = "WriteErr"
      /\ Len(output) = ops.writes - ops.write_failures

\* C5: a failed read or write is returned to the caller, and after it encode
\* does nothing more: no read, no write, no coding step, no flush.
C5_FirstFailureStops ==
  []C5_Inv
  /\ [][ops.read_failures + ops.write_failures > 0 => UNCHANGED vars]_vars

\* a write inside flush_bit failed after some bytes had been written
C5_Witness == result = "WriteErr" /\ ops.flushes = 0 /\ output # << >>

\* a bit() call passes its assertions and sets the range
C6_BitStep == pc = "bit" /\ pc' = "flush_bit"

\* mid = low + delta + (1 - bit), delta = ((high - low) * p) >> 24, in 128 bits
C6_Mid ==
  LET d     == Head(pending)
      p     == ShrBytes(StateAt(states, d.context), 1)
      delta == ShrBytes(Mul(WrappingSub(high, low), Cast(p, 8)), 3)
  IN  WrappingAdd(WrappingAdd(Cast(low, 16), delta), ToBytes(1 - d.bit, 16))

\* C6 as claimed: bit 1 sets low to mid, bit 0 sets high to mid
C6_Original ==
  [][C6_BitStep =>
       IF Head(pending).bit = 1
       THEN Cast(low', 16) = C6_Mid /\ high' = high
       ELSE Cast(high', 16) = C6_Mid /\ low' = low]_vars

\* C6 (amended): with p the prediction before the update,
\* delta = ((high - low) * p) >> 24 and mid = low + delta + (1 - bit);
\* bit 1 sets high to mid and leaves low, bit 0 sets low to mid and leaves high.
C6_BitSetsRange ==
  [][C6_BitStep =>
       IF Head(pending).bit = 1
       THEN Cast(high', 16) = C6_Mid /\ low' = low
       ELSE Cast(low', 16) = C6_Mid /\ high' = high]_vars

\* a bit 1 has been coded under a context that was trained before
C6_Witness ==
  /\ pc = "flush_bit"
  /\ coded # << >>
  /\ coded[Len(coded)].bit = 1
  /\ StateAt(states, coded[Len(coded)].context)[1] > 1

\* bit number j (from 1) of the stream the coder emits, zero after its end
C7_Bit(j) == IF j <= Len(shifted) THEN shifted[j] ELSE 0

\* the byte made of the bits j .. j+7, the first one most significant
C7_Byte(j) ==
  128 * C7_Bit(j) + 64 * C7_Bit(j + 1) + 32 * C7_Bit(j + 2) + 16 * C7_Bit(j + 3)
  + 8 * C7_Bit(j + 4) + 4 * C7_Bit(j + 5) + 2 * C7_Bit(j + 6) + C7_Bit(j + 7)

\* C7: the bytes written are the bits shifted out by the renormalisation, in
\* order, then the flush bit (the top bit of low), eight per byte and the
\* first bit most significant, the last byte padded with zero bits.
C7_BytesAreBits ==
  ops.write_failures = 0 =>
    /\ \A i \in 1..Len(output) : output[i] = C7_Byte(8 * i - 7)
    /\ Len(shifted) = ops.shifts + ops.flushes
    /\ result = "running" => Len(output) = Len(shifted) \div 8
    /\ result = "Ok" =>
         /\ Len(output) = (Len(shifted) + 7) \div 8
         /\ shifted[Len(shifted)] = LowTopBit(low)

\* encode has succeeded and the bit buffer was pushed while its top bit was set
C7_Witness == result = "Ok" /\ Len(output) >= 3 /\ "bit_buffer" \in wrapped

\* C8 as claimed: with N shifts and B = N + 1 bits, ceil((B + 1) / 8) bytes
C8_Original ==
  result = "Ok" => Len(output) = ((ops.shifts + 1) + 1 + 7) \div 8

\* C8 (amended): with N renormalisation shifts and B = N + 1 bits emitted,
\* the number of bytes written is ceil(B / 8).
C8_OutputLength ==
  result = "Ok" => Len(output) = ((ops.shifts + 1) + 7) \div 8

\* encode has succeeded with a number of shifts that is 7 modulo 8
C8_Witness == result = "Ok" /\ ops.shifts % 8 = 7

\* the byte values tried as the next byte in every reachable state: those
\* of Bytes, their neighbours and the values around the middle
Probes == Bytes \cup {2, 3, 64, 127, 128, 129, 253, 254}

\* the cell (first, second, third, match_count) as a tuple
C9_Fields(value) ==
  <<get_first(value), get_second(value), get_third(value), get_count(value)>>

\* the outcome and the cell after matching(next), as the claim gives them
C9_Claimed(f, next) ==
  IF next = f[1]
  THEN <<"FIRST", <<f[1], f[2], f[3], IF f[4] + 1 < 255 THEN f[4] + 1 ELSE 255>> >>
  ELSE IF next = f[2] THEN <<"SECOND", <<next, f[1], f[3], 1>> >>
  ELSE IF next = f[3] THEN <<"THIRD", <<next, f[1], f[2], 1>> >>
  ELSE <<"NONE", <<next, f[1], f[2], 0>> >>

\* C9: for every reachable history cell and every byte next, matching(next)
\* returns FIRST / SECOND / THIRD / NONE by comparing next with first,
\* second, third in that order and leaves (first, second, third,
\* match_count) as (same, count + 1 capped at 255), (next, first, third, 1),
\* (next, first, second, 1), (next, first, second, 0).
C9_UpdateMatch ==
  \A next \in Probes :
    LET value == CellAt(contexts, hash_value)
        r     == MatchingContext_update_match(value, next)
    IN  <<r.matched, C9_Fields(r.value)>> = C9_Claimed(C9_Fields(value), next)

\* a cell with three different bytes whose match_count has reached 255
C9_Witness ==
  LET value == CellAt(contexts, hash_value)
  IN  /\ get_count(value) = 255
      /\ get_first(value) # get_second(value)
      /\ get_second(value) # get_third(value)
      /\ get_first(value) # get_third(value)

RECURSIVE C10_Fold(_, _)
\* the left fold of h -> (h * 160 + b + 1) mod m over seq, from 0
C10_Fold(seq, m) ==
  IF seq = << >> THEN 0
  ELSE PrimaryContext_update(C10_Fold(SubSeq(seq, 1, Len(seq) - 1), m),
                             seq[Len(seq)], m)

\* C10: after any byte sequence the hash is the fold of
\* h -> (h * 160 + b + 1) mod 2^L over it and is below the map size, the
\* previous byte is the last byte fed (0 at the start), and the bitmask form
\* and the modulus form of the update agree for every next byte.
C10_Hash ==
  /\ hash_value = C10_Fold(input, 2^size_log)
  /\ hash_value < MapLen(size_log)
  /\ last_byte = IF input = << >> THEN 0 ELSE input[Len(input)]
  /\ \A b \in Probes :
       NextHash(hash_value, b, MapLen(size_log))
         = PrimaryContext_update(hash_value, b, 2^size_log)

\* in the 2^24-cell map the last update reduced a value of 2^24 or more
C10_Witness ==
  /\ size_log = ContextSizeLog
  /\ input # << >>
  /\ head.hash_value > MapLen(size_log) \div (5 * 2^5)

\* ------------------------------------------------------------------------
\* BitEncoder::byte driven on its own (main.rs 136-152)
\* ------------------------------------------------------------------------

\* the cells whose literal context byte() is called with: the initial cell
\* and a cell whose match_count is 255
ByteCells == { << >>, [h \in {0} |-> U32(\hFF00, 0)] }

\* an encoder about to call byte(literal_context, b), for every byte b
ByteInit ==
  /\ pc = "byte"
  /\ result = "running"
  /\ BitEncoder_new
  /\ hash_value = 0
  /\ size_log = 0
  /\ contexts \in ByteCells
  /\ last_byte = IF contexts = << >> THEN 0 ELSE 255
  /\ pending = << >>
  /\ eof = FALSE
  /\ input \in {<<b>> : b \in 0..255}
  /\ head = HeadNow
  /\ matched = "NONE"
  /\ coded = << >>
  /\ shifted = << >>
  /\ ops = NoOps
  /\ wrapped = {}

\* the context byte() is called with in this run
ByteContext == LoopContexts(head.value, head.last_byte).literal_context

\* encoder.byte(literal_context, current_byte) (main.rs 338)
ByteCall ==
  /\ pc = "byte"
  /\ pc' = "bit"
  /\ pending' = BitEncoder_byte(ByteContext, input[1])
  /\ UNCHANGED <<result, coderVars, mapVars, eof, histVars>>

ByteNext ==
  \/ ByteCall
  \/ Bit
  \/ FlushBitShift(TRUE)
  \/ FlushBitReturn

ByteSpec == ByteInit /\ [][ByteNext]_vars

\* bit number i of x (bit 0 the least significant)
C11_BitOf(x, i) == (x \div 2^i) % 2

\* the four (context, bit) pairs of one nibble as the claim gives them:
\* z is the nibble with 16 added, base the context of its block
C11_Nibble(base, z) ==
  << [context |-> base + 1,            bit |-> C11_BitOf(z, 3)],
     [context |-> base + (z \div 8),   bit |-> C11_BitOf(z, 2)],
     [context |-> base + (z \div 4),   bit |-> C11_BitOf(z, 1)],
     [context |-> base + (z \div 2),   bit |-> C11_BitOf(z, 0)] >>

\* the block of the low nibble after the high nibble x - 16
C11_Base(ctx, x) == ctx + 15 * (x - 15)

\* the eight pairs the claim gives for byte(ctx, byte)
C11_Claimed(ctx, byte) ==
  LET x == (byte \div 16) + 16
      y == (byte % 16) + 16
  IN  C11_Nibble(ctx, x) \o C11_Nibble(C11_Base(ctx, x), y)

\* the 15 contexts of the block that starts after base
C11_Block(base) == (base + 1)..(base + 15)

\* C11: byte(ctx, byte) makes exactly the eight bit() calls the claim
\* lists, in order; the high-nibble contexts lie in ctx+1..ctx+15, the
\* low-nibble contexts in the block of the high nibble, the 16 blocks are
\* pairwise disjoint and disjoint from ctx+1..ctx+15, and no other byte
\* value gives the same sequence of (context, bit) pairs.
C11_ByteCoding ==
  LET ctx  == ByteContext
      byte == input[1]
      want == C11_Claimed(ctx, byte)
  IN  /\ Len(coded) <= 8
      /\ coded = SubSeq(want, 1, Len(coded))
      /\ pc = "loop" =>
           /\ Len(coded) = 8
           /\ pending = << >>
           /\ ops.bits = 8
           /\ \A i \in 1..4 : coded[i].context \in C11_Block(ctx)
           /\ \A i \in 5..8 :
                coded[i].context \in C11_Block(C11_Base(ctx, (byte \div 16) + 16))
           /\ \A x1 \in 16..31 :
                /\ C11_Block(C11_Base(ctx, x1)) \cap C11_Block(ctx) = {}
                /\ \A x2 \in 16..31 :
                     x1 # x2 => C11_Block(C11_Base(ctx, x1))
                                  \cap C11_Block(C11_Base(ctx, x2)) = {}
           /\ \A other \in 0..255 :
                other # byte => BitEncoder_byte(ctx, other) # coded

\* byte() has returned after coding 255 under the highest literal context
C11_Witness ==
  /\ pc = "loop"
  /\ Len(coded) = 8
  /\ input = <<255>>
  /\ head.last_byte = 255
  /\ coded[8].context = PredictorSize - 1

\* ------------------------------------------------------------------------
\* A predictor driven on its own (main.rs 63-95)
\* ------------------------------------------------------------------------

\* the table holds BitPrediction::new everywhere; entry 0 is updated
PredInit ==
  /\ pc = "update"
  /\ result = "running"
  /\ BitEncoder_new
  /\ MatchingContexts_new(0)
  /\ pending = << >>
  /\ eof = FALSE
  /\ HistInit

\* self.states[0].update(bit): the first MaxFree bits are free, the later
\* ones repeat the last bit
Update(bit) ==
  /\ pc = "update"
  /\ ops.bits < MaxUpdates
  /\ IF ops.bits < MaxFree THEN TRUE ELSE bit = coded[1].bit
  /\ states' = [x \in {0} |-> BitPrediction_update(StateAt(states, 0), bit)]
  /\ coded' = << [context |-> 0, bit |-> bit] >>
  /\ ops' = Count("bits")
  /\ UNCHANGED <<pc, result, low, high, bit_buffer, bit_count, output, mapVars,
                 pending, eof, input, head, matched, shifted, wrapped>>

PredNext == \E bit \in {0, 1} : Update(bit)

PredSpec == PredInit /\ [][PredNext]_vars

\* the count field of a state word as the claim reads it: its lowest byte
C12_Count(state) == state[1]

\* C12: for every reachable predictor state and both bit values,
\* update(bit) returns the state before the update shifted right by 8, and
\* the count of the new state is min(count + 1, 255); so the count never
\* exceeds 255, never decreases and stays at 255 once it is 255.
C12_CountSaturates ==
  \A bit \in {0, 1} :
    LET state == StateAt(states, 0)
        c     == C12_Count(state)
        new   == BitPrediction_update(state, bit)
    IN  /\ BitPrediction_update_return(state, bit)
             = <<state[2], state[3], state[4], 0, 0, 0, 0, 0>>
        /\ C12_Count(new) = IF c + 1 < 255 THEN c + 1 ELSE 255
        /\ C12_Count(new) <= 255
        /\ C12_Count(new) >= c
        /\ c = 255 => C12_Count(new) = 255
        /\ c = IF ops.bits < 255 THEN ops.bits ELSE 255

\* a predictor updated again after its count reached 255
C12_Witness ==
  /\ pc = "update"
  /\ ops.bits > 256
  /\ C12_Count(StateAt(states, 0)) = 255

\* the prediction p of a state word, as a 64-bit word
C19_P(state) == <<state[2], state[3], state[4], 0, 0, 0, 0, 0>>

\* delta = ((target - p) * M[c]) >> 24 in signed 64-bit arithmetic, where
\* target = bit * 2^24
C19_Delta(state, bit) ==
  LET target == ShlBytes(ToBytes(bit, 8), 3)
      M      == Cast(MULTIPLIER[state[1] + 1], 8)
  IN  SarBytes(WrappingMul(WrappingSub(target, C19_P(state)), M), 3)

\* the prediction of the state after update(bit)
C19_NewP(state, bit) ==
  LET new == BitPrediction_update(state, bit)
  IN  <<new[2], new[3], new[4]>>

\* C19 as stated: update(bit) sets the prediction to (p + delta) mod 2^24.
C19_Original ==
  \A bit \in {0, 1} :
    LET state == StateAt(states, 0)
    IN  C19_NewP(state, bit)
          = Cast(WrappingAdd(C19_P(state), C19_Delta(state, bit)), 3)

\* C19 amended: update(bit) sets the prediction to (p + (delta >> 8)) mod
\* 2^24, the shift being arithmetic: the state word changes by
\* delta & 0xFFFFFF00 (delta cut to 32 bits) plus the count increment,
\* with 32-bit wrapping.
C19_Prediction ==
  \A bit \in {0, 1} :
    LET state == StateAt(states, 0)
        delta == C19_Delta(state, bit)
        inc   == IF state[1] < 255 THEN 1 ELSE 0
    IN  /\ C19_NewP(state, bit)
             = Cast(WrappingAdd(C19_P(state), SarBytes(delta, 1)), 3)
        /\ BitPrediction_update(state, bit)
             = WrappingAdd(state, <<inc, delta[2], delta[3], delta[4]>>)

\* a predictor updated several times, the last time with bit 0, whose
\* prediction is below one half
C19_Witness ==
  /\ pc = "update"
  /\ ops.bits >= 2
  /\ coded[1].bit = 0
  /\ StateAt(states, 0)[4] < 128

\* ------------------------------------------------------------------------
\* The range coder driven on its own: any bit() calls, then flush()
\* (main.rs 99-183)
\* ------------------------------------------------------------------------

CoderInit ==
  /\ pc = "loop"
  /\ result = "running"
  /\ BitEncoder_new
  /\ MatchingContexts_new(0)
  /\ pending = << >>
  /\ eof = FALSE
  /\ HistInit

\* the contexts the caller passes in its call number k + 1
CallContexts(k) == IF k < MaxWarm THEN {0, k} ELSE {k}

\* the caller calls bit(context, bit)
Call(context, bit) ==
  /\ pc = "loop"
  /\ ~eof
  /\ ops.bits < MaxCalls
  /\ ops.shifts <= MaxShifts
  /\ context \in CallContexts(ops.bits)
  /\ pc' = "bit"
  /\ pending' = << [context |-> context, bit |-> bit] >>
  /\ UNCHANGED <<result, coderVars, mapVars, eof, histVars>>

\* the caller calls flush()
CallFlush ==
  /\ pc = "loop"
  /\ ~eof
  /\ pc' = "flush"
  /\ eof' = TRUE
  /\ UNCHANGED <<result, coderVars, mapVars, pending, histVars>>

CoderNext ==
  \/ \E context \in 0..MaxCalls, bit \in {0, 1} : Call(context, bit)
  \/ CallFlush
  \/ Bit
  \/ FlushBitShift(TRUE)
  \/ FlushBitReturn
  \/ Flush(TRUE)

CoderSpec == CoderInit /\ [][CoderNext]_vars

\* C13: for every sequence of bit() calls from the initial coder state no
\* assertion of bit() fails: low < high on entry and when the call has
\* returned, and the mid computed satisfies low <= mid < high.
C13_AssertionsHold ==
  /\ result # "panic"
  /\ pc \in {"bit", "loop"} => Less(low, high)
  /\ pc = "bit" =>
       LET d     == Head(pending)
           delta == BitDelta(low, high,
                             BitPrediction_update_return(StateAt(states, d.context),
                                                         d.bit))
           mid   == BitMid(low, delta, d.bit)
       IN  ~Less(mid, low) /\ Less(mid, high)

\* the flush bit followed by 63 zero bits, as a 64-bit word
C14_FlushValue == ShlBytes(ToBytes(128 * LowTopBit(low), 8), 7)

\* C14: when flush() is called, the word made of the flush bit (the top
\* bit of low) and 63 zero bits lies in the final interval [low, high].
C14_FlushIdentifies ==
  pc = "flush" => ~Less(C14_FlushValue, low) /\ ~Less(high, C14_FlushValue)

\* x + x + b needs more than 64 bits
C15_DoublingOverflows(x, b) ==
  AddOverflows(x, x) \/ AddOverflows(WrappingAdd(x, x), ToBytes(b, 8))

\* C15: in every run of bit() calls followed by flush() no addition of
\* the range coder exceeds its width: low + delta + (bit xor 1),
\* high + high + 1 and low + low stay below 2^64 and
\* bit_buffer + bit_buffer + b stays below 2^8.
C15_NoWrap ==
  /\ wrapped = {}
  /\ pc = "bit" =>
       LET d     == Head(pending)
           delta == BitDelta(low, high,
                             BitPrediction_update_return(StateAt(states, d.context),
                                                         d.bit))
       IN  /\ ~AddOverflows(low, delta)
           /\ ~AddOverflows(WrappingAdd(low, delta), ToBytes(XorInt(d.bit, 1), 8))
  /\ pc = "flush_bit" /\ SameTopBit(low, high) =>
       /\ ~C15_DoublingOverflows(high, 1)
       /\ ~C15_DoublingOverflows(low, 0)
       /\ bit_buffer + bit_buffer + LowTopBit(low) < B8
  /\ pc = "flush" => bit_buffer + bit_buffer + LowTopBit(low) < B8

\* ------------------------------------------------------------------------
\* History cells of the context map (main.rs 194-268)
\* ------------------------------------------------------------------------

\* the cells looked at: those a matching operation was applied to, cell 0
\* and the current one
C16_Cells == DOMAIN contexts \cup {0, hash_value}

\* C16 as stated: the match_count of a cell is 0 if and only if no
\* matching operation has ever been applied to the cell.
C16_Original ==
  \A h \in C16_Cells :
    get_count(CellAt(contexts, h)) = 0 <=> h \notin DOMAIN contexts

\* the cell the last matching operation was applied to
C16_Last == head.hash_value

C16_Inv ==
  /\ \A h \in C16_Cells :
       h \notin DOMAIN contexts => get_count(CellAt(contexts, h)) = 0
  /\ input # << >> =>
       /\ C16_Last \in DOMAIN contexts
       /\ get_count(contexts[C16_Last]) = 0 <=> matched = "NONE"

C16_Step ==
  /\ DOMAIN contexts' = DOMAIN contexts \cup {hash_value}
  /\ \A h \in DOMAIN contexts : h # hash_value => contexts'[h] = contexts[h]

\* C16 amended: a cell no matching operation was applied to has
\* match_count 0; a matching operation changes only the current cell and
\* leaves its match_count 0 exactly when it returns NONE, and at least 1
\* when it returns FIRST, SECOND or THIRD.
C16_ZeroCount == []C16_Inv /\ [][C16_Step]_vars

\* a cell left with match_count 0 by a NONE next to a cell that counts
C16_Witness ==
  /\ input # << >>
  /\ matched = "NONE"
  /\ get_count(CellAt(contexts, C16_Last)) = 0
  /\ \E h \in DOMAIN contexts : get_count(contexts[h]) > 0

\* the bytes fed to a cell MaxRepeat times; every byte is fed MaxFeed times
RunBytes == {0, 1, 2, 127, 128, 254, 255}

\* update_match with the byte of the last call again
Again ==
  /\ pc = "map"
  /\ input # << >>
  /\ Len(input) < MaxRepeat
  /\ IF Len(input) < MaxFeed THEN TRUE ELSE input[1] \in RunBytes
  /\ LET next_byte == input[Len(input)]
         m == MatchingContexts_update_match(contexts, hash_value, size_log, next_byte)
     IN  /\ contexts' = m.contexts
         /\ last_byte' = m.last_byte
         /\ hash_value' = m.hash_value
         /\ matched' = m.matched
         /\ input' = Append(input, next_byte)
  /\ head' = HeadNow
  /\ UNCHANGED <<pc, result, coderVars, size_log, pending, eof, coded, shifted, ops,
                 wrapped>>

\* one byte, any of the 256, fed again and again to the cell of a one-cell map
RunNext ==
  \/ \E b \in 0..255 : input = << >> /\ Feed(b)
  \/ Again

RunSpec == CellInit /\ [][RunNext]_vars

\* the cell and the outcome after k calls of matching(b) as the claim
\* gives them, the first call returning `first`
C17_After(b, k, first) ==
  LET later == IF first = "NONE" THEN k - 1 ELSE k
  IN  [fields  |-> <<b, 0, 0, IF later < 255 THEN later ELSE 255>>,
       matched |-> IF k = 1 THEN first ELSE "FIRST"]

\* the cell and the outcome in the current state
C17_Now ==
  [fields  |-> C9_Fields(CellAt(contexts, 0)),
   matched |-> matched]

\* C17 as stated: for every byte b the first call returns NONE.
C17_Original ==
  input # << >> => C17_Now = C17_After(input[1], Len(input), "NONE")

\* C17 amended: after k >= 1 calls of matching(b) on a new cell, for
\* b # 0 the first call returned NONE with match_count 0, the later calls
\* FIRST, and the cell is (b, 0, 0) with match_count min(k - 1, 255); for
\* b = 0 every call returned FIRST and the cell is (0, 0, 0) with
\* match_count min(k, 255).
C17_Repeated ==
  input # << >> =>
    /\ \A i \in 1..Len(input) : input[i] = input[1]
    /\ C17_Now = C17_After(input[1], Len(input),
                           IF input[1] = 0 THEN "FIRST" ELSE "NONE")

\* a byte other than 0 fed more than 256 times
C17_Witness ==
  /\ Len(input) > 256
  /\ input[1] # 0
  /\ matched = "FIRST"
  /\ get_count(CellAt(contexts, 0)) = 255

\* ------------------------------------------------------------------------
\* One iteration of the loop of encode() from any cell (main.rs 291-341)
\* ------------------------------------------------------------------------

\* the match counts of the current cell: around the switch at 4 and the
\* largest
BlockCounts == {0, 3, 4, 255}

\* the (first, second, third) bytes of the current cell: one matched by
\* the bytes of Bytes in its three places, one matched by none of them
BlockHistories == { <<0, 1, 255>>, <<2, 200, 100>> }

\* the previous bytes
BlockLastBytes == {0, 255}

\* an encoder at the top of its loop whose current cell has any history
BlockInit ==
  /\ pc = "loop"
  /\ result = "running"
  /\ BitEncoder_new
  /\ hash_value = 0
  /\ size_log = ContextSizeLog
  /\ \E h \in BlockHistories, c \in BlockCounts :
       contexts = [x \in {0} |-> h \o <<c>>]
  /\ last_byte \in BlockLastBytes
  /\ pending = << >>
  /\ eof = FALSE
  /\ HistInit

\* one read, then the bit() calls of its iteration
BlockNext ==
  \/ input = << >> /\ ReadEof
  \/ \E b \in Bytes : input = << >> /\ ReadByte(b)
  \/ Bit
  \/ FlushBitShift(TRUE)
  \/ FlushBitReturn

BlockSpec == BlockInit /\ [][BlockNext]_vars

\* bit_context as the claim gives it
C18_BitContext(prev, count) ==
  IF count < 4 THEN (prev * 4 + count) * 1024 ELSE (1024 + count) * 1024

\* the decision coded by call number i of an iteration
C18_Kind(i) ==
  IF i = 1 THEN "first"
  ELSE IF i = 2 THEN "second"
  ELSE IF matched \in {"SECOND", "THIRD"} THEN "third"
  ELSE "literal"

\* the context ids the claim allows for a decision
C18_Range(bc, kind) ==
  CASE kind = "first"   -> bc..(bc + 255)
    [] kind = "second"  -> (bc + 256)..(bc + 511)
    [] kind = "third"   -> (bc + 512)..(bc + 767)
    [] kind = "literal" -> (bc + 769)..(bc + 1023)

\* C18: every context id passed to the range coder in an iteration is
\* below the table size 1,310,720 and in the range of its decision inside
\* the 1024-entry block at bit_context; the blocks of the (prev, count)
\* pairs with count < 4 are different from each other and from the
\* blocks of the counts 4..255.
C18_ContextBlocks ==
  LET prev  == head.last_byte
      count == get_count(head.value)
      bc    == C18_BitContext(prev, count)
  IN  /\ result # "panic"
      /\ PredictorSize = 1310720
      /\ coded # << >> =>
           /\ bc = LoopContexts(head.value, prev).bit_context
           /\ \A i \in 1..Len(coded) :
                /\ coded[i].context < 1310720
                /\ coded[i].context \in C18_Range(bc, C18_Kind(i))
      /\ input = << >> /\ ~eof =>
           /\ \A p \in 0..255, c \in 0..3 :
                LET block == C18_BitContext(p, c) \div 1024
                IN  block < 1024 /\ block \div 4 = p /\ block % 4 = c
           /\ \A p \in BlockLastBytes, c \in 4..255 :
                C18_BitContext(p, c) \div 1024 = 1024 + c

\* the last table entry is used: the literal 255 coded from a cell whose
\* match_count is 255
C18_Witness ==
  /\ get_count(head.value) = 255
  /\ matched = "NONE"
  /\ Len(coded) = 10
  /\ coded[10].context = PredictorSize - 1
  /\ pc = "loop"

\* ------------------------------------------------------------------------
\* encode() on the prefixes of given inputs, source and sink never failing
\* (main.rs 287-343)
\* ------------------------------------------------------------------------

\* two inputs of 18 bytes that differ in the last byte
Scripts ==
  { <<0, 0, 255, 255, 156, 208, 9, 47, 0, 212, 0, 209, 0, 0, 212, 0, 0, 252>>,
    <<0, 0, 255, 255, 156, 208, 9, 47, 0, 212, 0, 209, 0, 0, 212, 0, 0, 255>> }

\* the read returns the next byte of an input that starts with the bytes
\* read so far
ReadScript ==
  \E s \in Scripts :
    /\ Len(input) < Len(s)
    /\ SubSeq(s, 1, Len(input)) = input
    /\ Read(s[Len(input) + 1])

ScriptInit ==
  /\ pc = "loop"
  /\ result = "running"
  /\ BitEncoder_new
  /\ MatchingContexts_new(ContextSizeLog)
  /\ pending = << >>
  /\ eof = FALSE
  /\ HistInit

ScriptNext ==
  \/ ReadEof
  \/ ReadScript
  \/ Bit
  \/ FlushBitShift(TRUE)
  \/ FlushBitReturn
  \/ Flush(TRUE)

ScriptSpec == ScriptInit /\ [][ScriptNext]_vars

\* C20: with a source and a sink that never fail, every byte is read
\* once, encode() ends only by returning, and once the source has reported
\* end of stream it returns success.
C20_Terminates ==
  /\ ops.reads = Len(input) + (IF eof THEN 1 ELSE 0)
  /\ result \in {"running", "Ok"}
  /\ pc = "return" => result = "Ok" /\ eof
====
